---------------------------- MODULE Spec2Model ----------------------------
(***************************************************************************)
(* A model of the sliding puzzle of src/src/main.rs: World::new (the grid  *)
(* and its shuffle), the frame loop of main, World::s_update (event        *)
(* handling, animation, drag logic, win check) and World::s_render.        *)
(***************************************************************************)
EXTENDS Integers, Sequences, FiniteSets, TLC

(***************************************************************************)
(* f32 arithmetic.  An f32 is <<m, e>> and stands for m * 2^e, with        *)
(* 2^23 <= |m| < 2^24, or <<0, 0>> for zero.  Results are rounded to       *)
(* nearest, ties to even, as IEEE 754 single precision does.  Exponent     *)
(* overflow, subnormals, infinities and NaN do not occur for the values    *)
(* of the program (pixel coordinates and colour channels) and are left out.*)
(***************************************************************************)
Pow2(n) == 2 ^ n

AbsInt(n) == IF n < 0 THEN -n ELSE n

SignInt(n) == IF n < 0 THEN -1 ELSE 1

MinInt(a, b) == IF a < b THEN a ELSE b

MaxInt(a, b) == IF a > b THEN a ELSE b

F32Zero == <<0, 0>>

\* Number of bits of M, for 0 <= M < 2^31.
RECURSIVE BitLenSmall(_)
BitLenSmall(M) == IF M = 0 THEN 0 ELSE 1 + BitLenSmall(M \div 2)

BitLen(M) ==
    IF M < 16777216 THEN
        IF M >= 8388608 THEN 24 ELSE BitLenSmall(M)
    ELSE IF M < 268435456 THEN
        IF M < 67108864 THEN (IF M < 33554432 THEN 25 ELSE 26)
        ELSE (IF M < 134217728 THEN 27 ELSE 28)
    ELSE IF M < 536870912 THEN 29
    ELSE IF M < 1073741824 THEN 30 ELSE 31

\* The f32 nearest to sgn * (M + d) * 2^E, where 0 <= d < 1 and sticky says
\* whether d > 0.  When sticky is set, M carries at least 26 bits.
F32Round(sgn, M, E, sticky) ==
    IF M = 0 THEN F32Zero
    ELSE LET bits == BitLen(M) IN
         IF bits <= 24
         THEN <<sgn * M * Pow2(24 - bits), E - (24 - bits)>>
         ELSE LET shift == bits - 24
                  q     == M \div Pow2(shift)
                  r     == M % Pow2(shift)
                  half  == Pow2(shift - 1)
                  up    == \/ r > half
                           \/ r = half /\ sticky
                           \/ r = half /\ ~sticky /\ q % 2 = 1
                  q1    == IF up THEN q + 1 ELSE q
              IN IF q1 = Pow2(24)
                 THEN <<sgn * Pow2(23), E + shift + 1>>
                 ELSE <<sgn * q1, E + shift>>

\* i32 as f32 (exact for |n| < 2^24, which holds for every pixel coordinate).
F32FromInt(n) == F32Round(SignInt(n), AbsInt(n), 0, FALSE)

F32Neg(a) == <<-a[1], a[2]>>

F32Abs(a) == <<AbsInt(a[1]), a[2]>>

\* a + b, with |a| the operand of the larger exponent.
F32AddOrdered(a, b) ==
    LET d == a[2] - b[2] IN
    IF d <= 6
    THEN LET S == a[1] * Pow2(d) + b[1]
         IN F32Round(SignInt(S), AbsInt(S), b[2], FALSE)
    ELSE LET A      == AbsInt(a[1]) * 64
             sh     == d - 6
             B      == IF sh >= 24 THEN 0 ELSE AbsInt(b[1]) \div Pow2(sh)
             sticky == IF sh >= 24 THEN TRUE ELSE AbsInt(b[1]) % Pow2(sh) # 0
             same   == SignInt(a[1]) = SignInt(b[1])
             S      == IF same THEN A + B
                       ELSE IF sticky THEN A - B - 1 ELSE A - B
         IN F32Round(SignInt(a[1]), S, a[2] - 6, sticky)

F32Add(a, b) ==
    IF a[1] = 0 THEN b
    ELSE IF b[1] = 0 THEN a
    ELSE IF a[2] >= b[2] THEN F32AddOrdered(a, b) ELSE F32AddOrdered(b, a)

F32Sub(a, b) == F32Add(a, F32Neg(b))

\* a * b: the 48-bit product of the mantissas from 12-bit limbs, then rounded.
F32Mul(a, b) ==
    IF a[1] = 0 \/ b[1] = 0 THEN F32Zero
    ELSE LET ma   == AbsInt(a[1])
             mb   == AbsInt(b[1])
             a1   == ma \div 4096
             a0   == ma % 4096
             b1   == mb \div 4096
             b0   == mb % 4096
             low  == a0 * b0
             mid  == a1 * b0 + a0 * b1 + (low \div 4096)
             hi   == a1 * b1 + (mid \div 4096)
             lo24 == (mid % 4096) * 4096 + (low % 4096)
             M    == hi * 64 + (lo24 \div 262144)
             st   == lo24 % 262144 # 0
         IN F32Round(SignInt(a[1]) * SignInt(b[1]), M, a[2] + b[2] + 18, st)

\* a < b
F32Less(a, b) ==
    IF a[1] < 0 /\ b[1] >= 0 THEN TRUE
    ELSE IF a[1] >= 0 /\ b[1] < 0 THEN FALSE
    ELSE IF a[1] = 0 THEN b[1] > 0
    ELSE IF b[1] = 0 THEN a[1] < 0
    ELSE IF a[1] > 0 THEN a[2] < b[2] \/ (a[2] = b[2] /\ a[1] < b[1])
    ELSE a[2] > b[2] \/ (a[2] = b[2] /\ a[1] < b[1])

\* f32 as u8: truncation toward zero, saturating at 0 and 255.
F32ToU8(a) ==
    IF a[1] <= 0 THEN 0
    ELSE IF a[2] >= 0 THEN 255
    ELSE IF -a[2] >= 24 THEN 0
    ELSE MinInt(255, a[1] \div Pow2(-a[2]))

\* The literals of lazy_smoothing and its callers, as f32.
F32_0_15 == <<10066330, -26>>

F32_0_1 == <<13421773, -27>>

\* lazy_smoothing without the abs() of the difference.
lazy_smoothing_signed(current, target, threshold) ==
    IF F32Less(F32Sub(current, target), threshold)
    THEN target
    ELSE F32Add(current, F32Mul(F32Sub(target, current), F32_0_15))

lazy_smoothing(current, target, threshold) ==
    IF F32Less(F32Abs(F32Sub(current, target)), threshold)
    THEN target
    ELSE F32Add(current, F32Mul(F32Sub(target, current), F32_0_15))


lazy_smoothing_vector2(current, target, threshold) ==
    [x |-> lazy_smoothing(current.x, target.x, threshold),
     y |-> lazy_smoothing(current.y, target.y, threshold)]

\* A Color is <<r, g, b>>, each channel a u8.
lazy_smoothing_color(current, target, threshold) ==
    [c \in 1..3 |->
        F32ToU8(lazy_smoothing(F32FromInt(current[c]), F32FromInt(target[c]),
                               threshold))]

(***************************************************************************)
(* Constants of the program and the bounds of the model.                   *)
(***************************************************************************)
EMPTY == -1

\* main: World::new(100, 10, 7)
piece_size == 100

padding == 10

\* VideoMode::desktop_mode() of the machine the program runs on.
SCREEN_WIDTH == 1920

SCREEN_HEIGHT == 1080

\* Largest mix_steps handed to World::new.
MaxMixSteps == 2

\* Frames (s_update calls) of a run.
MaxFrames == 3

\* Events waiting in the windows' queues at one time.
MaxQueue == 1

Tiles == 0..7

Coords == 0..2

V2(a, b) == [x |-> a, y |-> b]

V2F(v) == [x |-> F32FromInt(v.x), y |-> F32FromInt(v.y)]

BLACK == <<0, 0, 0>>

GREEN == <<0, 200, 0>>

RED == <<200, 0, 0>>

center == V2(SCREEN_WIDTH \div 2 - piece_size \div 2,
             SCREEN_HEIGHT \div 2 - piece_size \div 2)

(***************************************************************************)
(* The grid: grid[y][x], a tile id 0..7 or EMPTY.                          *)
(***************************************************************************)
SolvedGrid ==
    [i \in Coords |-> [j \in Coords |-> IF i * 3 + j = 8 THEN EMPTY ELSE i * 3 + j]]

\* First cell holding index, rows outermost; (-1, -1) when there is none.
m_get_grid_pos(g, index) ==
    LET found == {c \in Coords \X Coords : g[c[1]][c[2]] = index}
    IN IF found = {} THEN V2(-1, -1)
       ELSE LET first == CHOOSE c \in found :
                            \A d \in found : c[1] * 3 + c[2] <= d[1] * 3 + d[2]
            IN V2(first[2], first[1])

m_grid_pos_to_px(window_size, pad, ctr, x_index, y_index) ==
    V2((x_index - 1) * (window_size + pad) + ctr.x,
       (y_index - 1) * (window_size + pad) + ctr.y)

grid_pos_to_px(x_index, y_index) ==
    m_grid_pos_to_px(piece_size, padding, center, x_index, y_index)

\* First cell holding index, columns outermost; (0, 0) when there is none.
get_px_from_grid(g, index) ==
    LET found == {c \in Coords \X Coords : g[c[1]][c[2]] = index}
    IN IF found = {} THEN V2(0, 0)
       ELSE LET first == CHOOSE c \in found :
                            \A d \in found : c[2] * 3 + c[1] <= d[2] * 3 + d[1]
            IN grid_pos_to_px(first[2], first[1])

get_grid_pos(g, index) == m_get_grid_pos(g, index)

\* get_available_move with the steps toward the left and the right exchanged.
get_available_move_mirrored(g, index) ==
    LET grid_pos == get_grid_pos(g, index) IN
    IF grid_pos.x > 0 /\ g[grid_pos.y][grid_pos.x - 1] = EMPTY THEN V2(1, 0)
    ELSE IF grid_pos.x < 2 /\ g[grid_pos.y][grid_pos.x + 1] = EMPTY THEN V2(-1, 0)
    ELSE IF grid_pos.y > 0 /\ g[grid_pos.y - 1][grid_pos.x] = EMPTY THEN V2(0, -1)
    ELSE IF grid_pos.y < 2 /\ g[grid_pos.y + 1][grid_pos.x] = EMPTY THEN V2(0, 1)
    ELSE V2(0, 0)

get_available_move(g, index) ==
    LET grid_pos == get_grid_pos(g, index) IN
    IF grid_pos.x > 0 /\ g[grid_pos.y][grid_pos.x - 1] = EMPTY THEN V2(-1, 0)
    ELSE IF grid_pos.x < 2 /\ g[grid_pos.y][grid_pos.x + 1] = EMPTY THEN V2(1, 0)
    ELSE IF grid_pos.y > 0 /\ g[grid_pos.y - 1][grid_pos.x] = EMPTY THEN V2(0, -1)
    ELSE IF grid_pos.y < 2 /\ g[grid_pos.y + 1][grid_pos.x] = EMPTY THEN V2(0, 1)
    ELSE V2(0, 0)

\* adjacent_positions with the tests on last_swap negated.
adjacent_positions_negated(available_grid_pos, last) ==
    (IF available_grid_pos.x > 0 /\ last.x = available_grid_pos.x - 1
     THEN <<V2(available_grid_pos.x - 1, available_grid_pos.y)>> ELSE <<>>)
    \o (IF available_grid_pos.x < 2 /\ last.x = available_grid_pos.x + 1
        THEN <<V2(available_grid_pos.x + 1, available_grid_pos.y)>> ELSE <<>>)
    \o (IF available_grid_pos.y > 0 /\ last.y = available_grid_pos.y - 1
        THEN <<V2(available_grid_pos.x, available_grid_pos.y - 1)>> ELSE <<>>)
    \o (IF available_grid_pos.y < 2 /\ last.y = available_grid_pos.y + 1
        THEN <<V2(available_grid_pos.x, available_grid_pos.y + 1)>> ELSE <<>>)

\* adjacent_positions without the tests on last_swap.
adjacent_positions_all(available_grid_pos, last) ==
    (IF available_grid_pos.x > 0
     THEN <<V2(available_grid_pos.x - 1, available_grid_pos.y)>> ELSE <<>>)
    \o (IF available_grid_pos.x < 2
        THEN <<V2(available_grid_pos.x + 1, available_grid_pos.y)>> ELSE <<>>)
    \o (IF available_grid_pos.y > 0
        THEN <<V2(available_grid_pos.x, available_grid_pos.y - 1)>> ELSE <<>>)
    \o (IF available_grid_pos.y < 2
        THEN <<V2(available_grid_pos.x, available_grid_pos.y + 1)>> ELSE <<>>)

\* The candidates of one shuffle step, in the order they are pushed.
adjacent_positions(available_grid_pos, last) ==
    (IF available_grid_pos.x > 0 /\ last.x # available_grid_pos.x - 1
     THEN <<V2(available_grid_pos.x - 1, available_grid_pos.y)>> ELSE <<>>)
    \o (IF available_grid_pos.x < 2 /\ last.x # available_grid_pos.x + 1
        THEN <<V2(available_grid_pos.x + 1, available_grid_pos.y)>> ELSE <<>>)
    \o (IF available_grid_pos.y > 0 /\ last.y # available_grid_pos.y - 1
        THEN <<V2(available_grid_pos.x, available_grid_pos.y - 1)>> ELSE <<>>)
    \o (IF available_grid_pos.y < 2 /\ last.y # available_grid_pos.y + 1
        THEN <<V2(available_grid_pos.x, available_grid_pos.y + 1)>> ELSE <<>>)

\* mix_swap without the two writes.
mix_swap_none(g, available_grid_pos, adjacent_position) == g

\* The swap of one shuffle step.
mix_swap(g, available_grid_pos, adjacent_position) ==
    LET adjacent_index == g[adjacent_position.y][adjacent_position.x]
        g1 == [g EXCEPT ![adjacent_position.y][adjacent_position.x] = EMPTY]
    IN [g1 EXCEPT ![available_grid_pos.y][available_grid_pos.x] = adjacent_index]

(***************************************************************************)
(* The state.  pc is the place of main: "mix" in the shuffle loop of       *)
(* World::new, "s_update" and "s_render" in the frame loop, "exit" after   *)
(* it, "panic" after a failed bounds check.  grabbed_piece is {} for None  *)
(* and {i} for Some(i).  events[i] is the event queue of window i, and     *)
(* mouse_position the last mouse::desktop_position() a drag used.          *)
(***************************************************************************)
VARIABLES pc, mix_steps, mixed, last_swap, grid, pieces, grabbed_piece,
          grab_offset, available_move, playing, events, mouse_position, frames

vars == <<pc, mix_steps, mixed, last_swap, grid, pieces, grabbed_piece,
          grab_offset, available_move, playing, events, mouse_position, frames>>

\* PuzzlePiece::new
PuzzlePiece_new ==
    [position |-> V2(F32Zero, F32Zero), target_position |-> V2(F32Zero, F32Zero),
     color |-> BLACK, target_color |-> BLACK]

\* Where a left press may land inside a tile window.
PressPoints == {V2(10, 20)}

\* Displacements of the pointer, from where it grabs the tile of cell (0, 0).
DragSteps == {-20, 55, 56, 165, 166, 240}

\* What mouse::desktop_position() may return.
DesktopPositions ==
    {V2(grid_pos_to_px(0, 0).x + 10 + d, grid_pos_to_px(0, 0).y + 20 + d) :
        d \in DragSteps}

Init ==
    /\ pc = "mix"
    /\ mix_steps \in 0..MaxMixSteps
    /\ mixed = 0
    /\ last_swap = V2(0, 0)
    /\ grid = SolvedGrid
    /\ pieces = [i \in Tiles |-> PuzzlePiece_new]
    /\ grabbed_piece = {}
    /\ grab_offset = V2(0, 0)
    /\ available_move = V2(0, 0)
    /\ playing = TRUE
    /\ events = [i \in Tiles |-> <<>>]
    /\ mouse_position = V2(0, 0)
    /\ frames = 0

(***************************************************************************)
(* World::new                                                              *)
(***************************************************************************)
\* One pass of the shuffle loop; gen_range panics on an empty range.
MixStep ==
    /\ pc = "mix"
    /\ mixed < mix_steps
    /\ LET available_grid_pos == m_get_grid_pos(grid, EMPTY)
           adjacent == adjacent_positions(available_grid_pos, last_swap)
       IN IF Len(adjacent) = 0
          THEN /\ pc' = "panic"
               /\ UNCHANGED <<grid, last_swap, mixed>>
          ELSE \E random_index \in 0..(Len(adjacent) - 1) :
                  /\ grid' = mix_swap(grid, available_grid_pos,
                                      adjacent[random_index + 1])
                  /\ last_swap' = available_grid_pos
                  /\ mixed' = mixed + 1
                  /\ pc' = pc
    /\ UNCHANGED <<mix_steps, pieces, grabbed_piece, grab_offset, available_move,
                   playing, events, mouse_position, frames>>

\* After the loop: every window is put on its cell and the World is built.
SetPositions ==
    /\ pc = "mix"
    /\ mixed = mix_steps
    /\ pieces' = [i \in Tiles |->
                    LET grid_pos == m_get_grid_pos(grid, i)
                        grid_px  == m_grid_pos_to_px(piece_size, padding, center,
                                                     grid_pos.x, grid_pos.y)
                    IN [position |-> V2F(grid_px), target_position |-> V2F(grid_px),
                        color |-> BLACK, target_color |-> BLACK]]
    /\ grabbed_piece' = {}
    /\ grab_offset' = V2(0, 0)
    /\ available_move' = V2(0, 0)
    /\ playing' = TRUE
    /\ pc' = "s_update"
    /\ UNCHANGED <<mix_steps, mixed, last_swap, grid, events, mouse_position, frames>>

(***************************************************************************)
(* The windows' event queues, filled by the window system.                 *)
(***************************************************************************)
Queued ==
    Len(events[0]) + Len(events[1]) + Len(events[2]) + Len(events[3])
    + Len(events[4]) + Len(events[5]) + Len(events[6]) + Len(events[7])

\* An event reaches window i between two frames.
Post(i, event) ==
    /\ pc = "s_update"
    /\ frames < MaxFrames
    /\ Queued < MaxQueue
    /\ events' = [events EXCEPT ![i] = Append(@, event)]
    /\ UNCHANGED <<pc, mix_steps, mixed, last_swap, grid, pieces, grabbed_piece,
                   grab_offset, available_move, playing, mouse_position, frames>>

MouseButtonPressed(i, button, x, y) ==
    Post(i, [x |-> x, y |-> y, button |-> button, kind |-> "MouseButtonPressed"])

MouseButtonReleased(i, button, x, y) ==
    Post(i, [x |-> x, y |-> y, button |-> button, kind |-> "MouseButtonReleased"])

\* Any other Event, here a MouseMoved.
OtherEvent(i, x, y) ==
    Post(i, [x |-> x, y |-> y, button |-> "None", kind |-> "MouseMoved"])

(***************************************************************************)
(* World::s_update.  The handlers work on a record w of the World's        *)
(* fields; w.panic is set when an index of the grid is out of range.       *)
(***************************************************************************)
World ==
    [grid |-> grid, pieces |-> pieces, grabbed_piece |-> grabbed_piece,
     grab_offset |-> grab_offset, available_move |-> available_move,
     playing |-> playing, panic |-> FALSE]

Grabbed(w) == CHOOSE g \in w.grabbed_piece : TRUE

InGrid(pos) == pos.x \in Coords /\ pos.y \in Coords

\* on_pressed without the test of the button.
on_pressed_any_button(w, i, event) ==
    LET move == get_available_move(w.grid, i)
    IN [w EXCEPT !.grabbed_piece = {i},
                 !.available_move = move,
                 !.grab_offset = IF move.x # 0 \/ move.y # 0
                                 THEN V2(event.x, event.y) ELSE @]

\* on_pressed that also writes the move of the pressed tile to the grid.
on_pressed_commit(w, i, event) ==
    IF event.button = "Left"
    THEN LET move == get_available_move(w.grid, i)
         IN [w EXCEPT !.grabbed_piece = {i},
                      !.available_move = move,
                      !.grab_offset = IF move.x # 0 \/ move.y # 0
                                      THEN V2(event.x, event.y) ELSE @,
                      !.grid = IF move.x # 0 \/ move.y # 0
                               THEN mix_swap(@, m_get_grid_pos(@, EMPTY),
                                             get_grid_pos(@, i))
                               ELSE @]
    ELSE w

\* on_pressed without the write of available_move.
on_pressed_keep_move(w, i, event) ==
    IF event.button = "Left"
    THEN LET move == get_available_move(w.grid, i)
         IN [w EXCEPT !.grabbed_piece = {i},
                      !.grab_offset = IF move.x # 0 \/ move.y # 0
                                      THEN V2(event.x, event.y) ELSE @]
    ELSE w

\* Event::MouseButtonPressed on window i
on_pressed(w, i, event) ==
    IF event.button = "Left"
    THEN LET move == get_available_move(w.grid, i)
         IN [w EXCEPT !.grabbed_piece = {i},
                      !.available_move = move,
                      !.grab_offset = IF move.x # 0 \/ move.y # 0
                                      THEN V2(event.x, event.y) ELSE @]
    ELSE w

\* The four tests of the release handler: has the window passed the midpoint?
moved(window_position, current_grid_px, move) ==
    LET half_x_up == F32Add(F32Add(F32FromInt(current_grid_px.x),
                                   F32FromInt(padding \div 2)),
                            F32FromInt(piece_size \div 2))
        half_x_dn == F32Sub(F32Sub(F32FromInt(current_grid_px.x),
                                   F32FromInt(padding \div 2)),
                            F32FromInt(piece_size \div 2))
        half_y_up == F32Add(F32Add(F32FromInt(current_grid_px.y),
                                   F32FromInt(padding \div 2)),
                            F32FromInt(piece_size \div 2))
        half_y_dn == F32Sub(F32Sub(F32FromInt(current_grid_px.y),
                                   F32FromInt(padding \div 2)),
                            F32FromInt(piece_size \div 2))
    IN IF move.x # 0
       THEN IF move.x > 0
            THEN F32Less(half_x_up, window_position.x)
            ELSE F32Less(window_position.x, half_x_dn)
       ELSE IF move.y > 0
            THEN F32Less(half_y_up, window_position.y)
            ELSE F32Less(window_position.y, half_y_dn)

\* commit_move without the write of EMPTY to the origin cell.
commit_move_keep(g, current_grid_pos, available_grid_pos, grabbed_window) ==
    [g EXCEPT ![available_grid_pos.y][available_grid_pos.x] = grabbed_window]

\* commit_move with the grid indexed [x][y].
commit_move_transposed(g, current_grid_pos, available_grid_pos, grabbed_window) ==
    LET g1 == [g EXCEPT ![current_grid_pos.x][current_grid_pos.y] = EMPTY]
    IN [g1 EXCEPT ![available_grid_pos.x][available_grid_pos.y] = grabbed_window]

\* The two grid writes of a committed move.
commit_move(g, current_grid_pos, available_grid_pos, grabbed_window) ==
    LET g1 == [g EXCEPT ![current_grid_pos.y][current_grid_pos.x] = EMPTY]
    IN [g1 EXCEPT ![available_grid_pos.y][available_grid_pos.x] = grabbed_window]

\* The release handler's block for a window that can move.
release_move(w, i, grabbed_window) ==
    LET current_grid_pos   == get_grid_pos(w.grid, grabbed_window)
        current_grid_px    == get_px_from_grid(w.grid, grabbed_window)
        available_grid_pos == V2(current_grid_pos.x + w.available_move.x,
                                 current_grid_pos.y + w.available_move.y)
        available_grid_px  == grid_pos_to_px(available_grid_pos.x,
                                             available_grid_pos.y)
        window_position    == w.pieces[i].position
        has_moved          == moved(window_position, current_grid_px,
                                    w.available_move)
    IN IF has_moved /\ ~(InGrid(current_grid_pos) /\ InGrid(available_grid_pos))
       THEN [w EXCEPT !.panic = TRUE]
       ELSE [w EXCEPT
               !.grid = IF has_moved
                        THEN commit_move(@, current_grid_pos,
                                         available_grid_pos, grabbed_window)
                        ELSE @,
               !.pieces[grabbed_window].target_position =
                        IF has_moved THEN V2F(available_grid_px)
                        ELSE V2F(current_grid_px)]

\* reset_grabbed without the assignment.
reset_grabbed_never(w) == w

\* self.grabbed_piece = None, which a panic in the block above never reaches.
reset_grabbed(w) ==
    IF w.panic THEN w ELSE [w EXCEPT !.grabbed_piece = {}]

\* on_released with the reset of grabbed_piece inside the block.
on_released_keep(w, i, event) ==
    IF event.button = "Left" /\ w.grabbed_piece # {}
    THEN IF w.available_move.x # 0 \/ w.available_move.y # 0
         THEN reset_grabbed(release_move(w, i, Grabbed(w)))
         ELSE w
    ELSE w

\* Event::MouseButtonReleased on window i
on_released(w, i, event) ==
    IF event.button = "Left" /\ w.grabbed_piece # {}
    THEN IF w.available_move.x # 0 \/ w.available_move.y # 0
         THEN reset_grabbed(release_move(w, i, Grabbed(w)))
         ELSE reset_grabbed(w)
    ELSE w

\* One arm of the match on the polled event.
handle_event(w, i, event) ==
    IF w.panic THEN w
    ELSE IF event.kind = "MouseButtonPressed" THEN on_pressed(w, i, event)
    ELSE IF event.kind = "MouseButtonReleased" THEN on_released(w, i, event)
    ELSE w

\* while let Some(event) = self.pieces[i].window.poll_event()
RECURSIVE poll_events(_, _, _)
poll_events(w, i, queue) ==
    IF queue = <<>> THEN w
    ELSE poll_events(handle_event(w, i, Head(queue)), i, Tail(queue))

\* PuzzlePiece::update
PuzzlePiece_update(piece) ==
    [piece EXCEPT
        !.position = lazy_smoothing_vector2(@, piece.target_position, F32_0_1),
        !.color = lazy_smoothing_color(@, piece.target_color, F32_0_1)]

\* for i in 0..8: drain the events of window i, then update piece i.
RECURSIVE update_windows(_, _, _)
update_windows(w, i, queues) ==
    IF i > 7 \/ w.panic THEN w
    ELSE LET w1 == poll_events(w, i, queues[i])
         IN IF w1.panic THEN w1
            ELSE update_windows([w1 EXCEPT !.pieces[i] = PuzzlePiece_update(@)],
                                i + 1, queues)

\* clamp without the upper limit.
clamp_low(v, lo, hi) == IF v < lo THEN lo ELSE v

clamp(v, lo, hi) == IF v < lo THEN lo ELSE IF v > hi THEN hi ELSE v

\* Grabbed window logic
grabbed_logic(w, mouse) ==
    IF w.grabbed_piece = {} THEN w
    ELSE LET grabbed_window     == Grabbed(w)
             current_grid_pos   == get_grid_pos(w.grid, grabbed_window)
             current_grid_px    == get_px_from_grid(w.grid, grabbed_window)
             available_grid_pos == V2(current_grid_pos.x + w.available_move.x,
                                      current_grid_pos.y + w.available_move.y)
             available_grid_px  == grid_pos_to_px(available_grid_pos.x,
                                                  available_grid_pos.y)
             new_x == IF w.available_move.x # 0
                      THEN clamp(mouse.x - w.grab_offset.x,
                                 MinInt(current_grid_px.x, available_grid_px.x),
                                 MaxInt(current_grid_px.x, available_grid_px.x))
                      ELSE current_grid_px.x
             new_y == IF w.available_move.y # 0
                      THEN clamp(mouse.y - w.grab_offset.y,
                                 MinInt(current_grid_px.y, available_grid_px.y),
                                 MaxInt(current_grid_px.y, available_grid_px.y))
                      ELSE current_grid_px.y
         IN [w EXCEPT !.pieces[grabbed_window].position = V2F(V2(new_x, new_y)),
                      !.pieces[grabbed_window].target_position = V2F(V2(new_x, new_y))]

\* win with the loop ending one tile early.
win_seven(g) ==
    \A i \in 0..6 :
        LET grid_pos == get_grid_pos(g, i) IN grid_pos.y * 3 + grid_pos.x = i

\* win with the cell number computed as x * 3 + y.
win_column_major(g) ==
    \A i \in Tiles :
        LET grid_pos == get_grid_pos(g, i) IN grid_pos.x * 3 + grid_pos.y = i

\* Check if the player won
win(g) ==
    \A i \in Tiles :
        LET grid_pos == get_grid_pos(g, i) IN grid_pos.y * 3 + grid_pos.x = i

\* check_win with the test negated.
check_win_negated(w) == IF ~win(w.grid) THEN [w EXCEPT !.playing = FALSE] ELSE w

check_win(w) == IF win(w.grid) THEN [w EXCEPT !.playing = FALSE] ELSE w

\* One frame.  The pointer is read only while a window is grabbed; it is
\* recorded when the drag uses it (available_move is not (0, 0)).
s_update ==
    /\ pc = "s_update"
    /\ frames < MaxFrames
    /\ \E w1 \in {update_windows(World, 0, events)} :
         IF w1.panic
         THEN /\ pc' = "panic"
              /\ UNCHANGED <<grid, pieces, grabbed_piece, grab_offset,
                             available_move, playing, mouse_position>>
         ELSE \E mouse \in IF w1.grabbed_piece # {}
                              /\ (w1.available_move.x # 0 \/ w1.available_move.y # 0)
                           THEN DesktopPositions ELSE {mouse_position} :
                 \E w2 \in {check_win(grabbed_logic(w1, mouse))} :
                    /\ grid' = w2.grid
                    /\ pieces' = w2.pieces
                    /\ grabbed_piece' = w2.grabbed_piece
                    /\ grab_offset' = w2.grab_offset
                    /\ available_move' = w2.available_move
                    /\ playing' = w2.playing
                    /\ mouse_position' = mouse
                    /\ pc' = "s_render"
    /\ events' = [i \in Tiles |-> <<>>]
    /\ frames' = frames + 1
    /\ UNCHANGED <<mix_steps, mixed, last_swap>>

(***************************************************************************)
(* World::s_render, and the test of the frame loop that follows it.        *)
(***************************************************************************)
\* bg_color with the two colours exchanged.
bg_color_exchanged(g, i) ==
    LET grid_pos == get_grid_pos(g, i)
    IN IF grid_pos.y * 3 + grid_pos.x = i THEN RED ELSE GREEN

bg_color(g, i) ==
    LET grid_pos == get_grid_pos(g, i)
    IN IF grid_pos.y * 3 + grid_pos.x = i THEN GREEN ELSE RED

s_render ==
    /\ pc = "s_render"
    /\ pieces' = [i \in Tiles |-> [pieces[i] EXCEPT !.target_color = bg_color(grid, i)]]
    /\ pc' = IF playing THEN "s_update" ELSE "exit"
    /\ UNCHANGED <<mix_steps, mixed, last_swap, grid, grabbed_piece, grab_offset,
                   available_move, playing, events, mouse_position, frames>>

Next ==
    \/ MixStep
    \/ SetPositions
    \/ \E i \in Tiles, p \in PressPoints :
          MouseButtonPressed(i, "Left", p.x, p.y)
    \/ \E i \in Tiles : MouseButtonReleased(i, "Left", 0, 0)
    \/ \E i \in Tiles, p \in PressPoints :
          MouseButtonPressed(i, "Right", p.x, p.y)
    \/ \E i \in Tiles : MouseButtonReleased(i, "Right", 0, 0)
    \/ \E i \in Tiles : OtherEvent(i, 0, 0)
    \/ s_update
    \/ s_render

Spec == Init /\ [][Next]_vars

(***************************************************************************)
(* The animation alone: PuzzlePiece::update called frame after frame on    *)
(* pieces whose targets do not change.  Every piece starts from the same   *)
(* position and colour; position.y starts at the 0.0 of PuzzlePiece::new.  *)
(***************************************************************************)
\* Calls of PuzzlePiece::update in a run of the animation.
MaxUpdates == 48

\* PuzzlePiece::new puts a piece at 0.0; 5 and 100 are distances of a drag.
AnimationCoords == {0, 5, 100}

\* Color::BLACK of PuzzlePiece::new and the two colours of s_render.
AnimationColors == {BLACK, GREEN, RED}

InitAnimation ==
    /\ pc = "update"
    /\ mix_steps = 0
    /\ mixed = 0
    /\ last_swap = V2(0, 0)
    /\ grid = SolvedGrid
    /\ \E from \in AnimationCoords, to \in AnimationCoords,
          color \in AnimationColors, target_color \in AnimationColors :
          pieces = [i \in Tiles |->
                      [position |-> V2F(V2(from, 0)),
                       target_position |-> V2F(V2(to, to)),
                       color |-> color, target_color |-> target_color]]
    /\ grabbed_piece = {}
    /\ grab_offset = V2(0, 0)
    /\ available_move = V2(0, 0)
    /\ playing = TRUE
    /\ events = [i \in Tiles |-> <<>>]
    /\ mouse_position = V2(0, 0)
    /\ frames = 0

\* self.pieces[i].update() for every i, in a frame without events.
UpdatePieces ==
    /\ pc = "update"
    /\ frames < MaxUpdates
    /\ pieces' = [i \in Tiles |-> PuzzlePiece_update(pieces[i])]
    /\ frames' = frames + 1
    /\ UNCHANGED <<pc, mix_steps, mixed, last_swap, grid, grabbed_piece, grab_offset,
                   available_move, playing, events, mouse_position>>

NextAnimation == UpdatePieces

SpecAnimation == InitAnimation /\ [][NextAnimation]_vars

(***************************************************************************)
(* World::new with longer shuffles, the 7 steps of main among them, and    *)
(* the frames that follow when no event arrives.                           *)
(***************************************************************************)
\* Largest mix_steps of a long shuffle.
MaxShuffleSteps == 12

InitShuffle ==
    /\ pc = "mix"
    /\ mix_steps \in 0..MaxShuffleSteps
    /\ mixed = 0
    /\ last_swap = V2(0, 0)
    /\ grid = SolvedGrid
    /\ pieces = [i \in Tiles |-> PuzzlePiece_new]
    /\ grabbed_piece = {}
    /\ grab_offset = V2(0, 0)
    /\ available_move = V2(0, 0)
    /\ playing = TRUE
    /\ events = [i \in Tiles |-> <<>>]
    /\ mouse_position = V2(0, 0)
    /\ frames = 0

NextShuffle ==
    \/ MixStep
    \/ SetPositions
    \/ s_update
    \/ s_render

SpecShuffle == InitShuffle /\ [][NextShuffle]_vars

(***************************************************************************)
(* Vocabulary of the properties.                                           *)
(***************************************************************************)
Cells == {V2(a, b) : a \in Coords, b \in Coords}

\* The cell of EMPTY.
EmptyCell(g) == m_get_grid_pos(g, EMPTY)

Dist(p, q) == AbsInt(p.x - q.x) + AbsInt(p.y - q.y)

OrthNeighbours(p) == {q \in Cells : Dist(p, q) = 1}

Range(seq) == {seq[k] : k \in 1..Len(seq)}

\* g with the contents of cells a and b exchanged.
SwapCells(g, a, b) ==
    [r \in Coords |-> [c \in Coords |->
        IF r = a.y /\ c = a.x THEN g[b.y][b.x]
        ELSE IF r = b.y /\ c = b.x THEN g[a.y][a.x]
        ELSE g[r][c]]]

\* Exactly one cell holds v.
Once(g, v) == Cardinality({c \in Cells : g[c.y][c.x] = v}) = 1

RECURSIVE CountLeftReleases(_)
CountLeftReleases(queue) ==
    IF queue = <<>> THEN 0
    ELSE (IF Head(queue).kind = "MouseButtonReleased" /\ Head(queue).button = "Left"
          THEN 1 ELSE 0) + CountLeftReleases(Tail(queue))

\* Left releases waiting in all queues.
LeftReleases ==
    CountLeftReleases(events[0] \o events[1] \o events[2] \o events[3]
                      \o events[4] \o events[5] \o events[6] \o events[7])

\* The only waiting event is a left release, on window i.
OnlyLeftReleaseOn(i) == Queued = 1 /\ LeftReleases = 1 /\ Len(events[i]) = 1

\* This step is a frame.
Frame == pc = "s_update" /\ frames' = frames + 1

\* The pixel position of a cell.
CellPx(c) == grid_pos_to_px(c.x, c.y)

\* pos lies more than piece_size/2 + padding/2 from the origin cell's pixel
\* position, along the axis of move and toward EMPTY.
PastMidpoint(pos, origin_px, move) ==
    LET half == F32FromInt(piece_size \div 2 + padding \div 2) IN
    IF move.x > 0 THEN F32Less(half, F32Sub(pos.x, F32FromInt(origin_px.x)))
    ELSE IF move.x < 0 THEN F32Less(half, F32Sub(F32FromInt(origin_px.x), pos.x))
    ELSE IF move.y > 0 THEN F32Less(half, F32Sub(pos.y, F32FromInt(origin_px.y)))
    ELSE F32Less(half, F32Sub(F32FromInt(origin_px.y), pos.y))

\* A tile's cell after a step of move.
Stepped(pos, move) == V2(pos.x + move.x, pos.y + move.y)

(***************************************************************************)
(* C1.  The grid always holds exactly one EMPTY cell and each tile id      *)
(* 0..7 exactly once: after World::new for every number of shuffle steps,  *)
(* and after any presses, releases and frames.                             *)
(***************************************************************************)
C1_GridIsPermutation == \A v \in Tiles \cup {EMPTY} : Once(grid, v)

\* A player's move was committed: after one shuffle step EMPTY is at the centre.
C1_Witness == mix_steps = 1 /\ frames >= 2 /\ grid[1][1] = EMPTY

(***************************************************************************)
(* C2.  In the shuffle, every step records the cell EMPTY leaves in        *)
(* last_swap, and from the second step on EMPTY never moves back to the    *)
(* cell it occupied before the previous step, while every other adjacent   *)
(* cell is a candidate.                                                    *)
(***************************************************************************)
C2_NoImmediateInverse ==
    [][mixed' = mixed + 1 =>
          /\ last_swap' = EmptyCell(grid)
          /\ mixed >= 1 =>
                /\ EmptyCell(grid') # last_swap
                /\ Range(adjacent_positions(EmptyCell(grid), last_swap))
                      = OrthNeighbours(EmptyCell(grid)) \ {last_swap}]_vars

\* Two steps are done, the second from a cell with three neighbours.
C2_Witness == pc = "mix" /\ mixed >= 2 /\ Cardinality(OrthNeighbours(last_swap)) = 3

(***************************************************************************)
(* C3.  get_available_move(i) is a non-zero unit step iff EMPTY is         *)
(* orthogonally adjacent to tile i, and then the tile's cell plus the step *)
(* is the EMPTY cell; in the solved grid tile 4 gets (0,0), tile 5 gets    *)
(* (0,1) and tile 7 gets (1,0).                                            *)
(***************************************************************************)
C3_AvailableMove ==
    /\ \A i \in Tiles :
          LET pos  == get_grid_pos(grid, i)
              move == get_available_move(grid, i)
          IN /\ (move # V2(0, 0)) <=> (Dist(pos, EmptyCell(grid)) = 1)
             /\ move # V2(0, 0) =>
                   /\ AbsInt(move.x) + AbsInt(move.y) = 1
                   /\ V2(pos.x + move.x, pos.y + move.y) = EmptyCell(grid)
    /\ get_available_move(SolvedGrid, 4) = V2(0, 0)
    /\ get_available_move(SolvedGrid, 5) = V2(0, 1)
    /\ get_available_move(SolvedGrid, 7) = V2(1, 0)

\* A tile diagonal to EMPTY was pressed and got no move.
C3_Witness ==
    \E i \in grabbed_piece :
        /\ available_move = V2(0, 0)
        /\ AbsInt(get_grid_pos(grid, i).x - EmptyCell(grid).x) = 1
        /\ AbsInt(get_grid_pos(grid, i).y - EmptyCell(grid).y) = 1

(***************************************************************************)
(* C4.  A frame that commits a move changes the grid exactly by the swap   *)
(* of a tile's cell with the EMPTY cell: the origin becomes EMPTY, the     *)
(* destination holds the tile, the other seven cells keep their contents.  *)
(* Committing the reverse legal move of that tile next restores the grid.  *)
(***************************************************************************)
C4_CommitIsSwap ==
    [][(Frame /\ LeftReleases <= 1 /\ grid' # grid) =>
          \E t \in Tiles :
             LET origin  == get_grid_pos(grid, t)
                 dest    == EmptyCell(grid)
                 reverse == get_available_move(grid', t)
             IN /\ grid' = SwapCells(grid, origin, dest)
                /\ grid'[origin.y][origin.x] = EMPTY
                /\ grid'[dest.y][dest.x] = t
                /\ reverse # V2(0, 0)
                /\ Stepped(dest, reverse) = origin
                /\ commit_move(grid', dest, Stepped(dest, reverse), t) = grid]_vars

\* A committed move has undone the one shuffle step.
C4_Witness == mix_steps = 1 /\ frames = 2 /\ grid = SolvedGrid /\ grabbed_piece = {}

(***************************************************************************)
(* C5.  The win check is true exactly for the row-major identity           *)
(* arrangement with EMPTY last: false for every other grid the game        *)
(* reaches, and false for every grid obtained from the identity by         *)
(* exchanging two cells.                                                   *)
(***************************************************************************)
\* The win check on the identity and on its 36 single-swap perturbations.
WinOnPerturbations ==
    /\ win(SolvedGrid)
    /\ \A a \in Cells, b \in Cells : a # b => ~win(SwapCells(SolvedGrid, a, b))

C5_WinIffSolved ==
    /\ win(grid) <=> grid = SolvedGrid
    /\ WinOnPerturbations

\* A frame has run its win check on the identity with tile 7 and EMPTY exchanged.
C5_Witness ==
    /\ frames >= 1
    /\ playing
    /\ grid = SwapCells(SolvedGrid, V2(1, 2), V2(2, 2))

(***************************************************************************)
(* C6.  A frame whose only event is a left release, taken while a tile is  *)
(* grabbed with a legal move and has passed the midpoint toward EMPTY,     *)
(* commits the move: the grid is updated by the swap, the tile's target    *)
(* position is the destination cell's pixel position, nothing is grabbed.  *)
(***************************************************************************)
C6_ReleasePastMidpointCommits ==
    [][\A i \in Tiles, g \in Tiles :
          (/\ Frame
           /\ OnlyLeftReleaseOn(i)
           /\ grabbed_piece = {g}
           /\ available_move # V2(0, 0)
           /\ PastMidpoint(pieces[g].position, get_px_from_grid(grid, g),
                           available_move))
          => /\ grid' = SwapCells(grid, get_grid_pos(grid, g), EmptyCell(grid))
             /\ pieces'[g].target_position = V2F(CellPx(EmptyCell(grid)))
             /\ grabbed_piece' = {}]_vars

(***************************************************************************)
(* C7.  A frame whose only event is a left release, taken while a tile is  *)
(* grabbed with a legal move and has not passed the midpoint (the midpoint *)
(* itself included), leaves the grid unchanged, sets the tile's target     *)
(* position to its origin cell's pixel position, and nothing is grabbed.   *)
(***************************************************************************)
C7_ReleaseBeforeMidpointReverts ==
    [][\A i \in Tiles, g \in Tiles :
          (/\ Frame
           /\ OnlyLeftReleaseOn(i)
           /\ grabbed_piece = {g}
           /\ available_move # V2(0, 0)
           /\ ~PastMidpoint(pieces[g].position, get_px_from_grid(grid, g),
                            available_move))
          => /\ grid' = grid
             /\ pieces'[g].target_position = V2F(get_px_from_grid(grid, g))
             /\ grabbed_piece' = {}]_vars

(***************************************************************************)
(* C8.  A frame whose only event is a left release, taken while the        *)
(* grabbed tile has no legal move, leaves nothing grabbed and changes      *)
(* neither the grid nor any tile's target position; and no frame moves a   *)
(* tile that was not orthogonally adjacent to EMPTY.                       *)
(***************************************************************************)
C8_ReleaseWithoutMove ==
    [][/\ (/\ Frame
           /\ \E i \in Tiles : OnlyLeftReleaseOn(i)
           /\ grabbed_piece # {}
           /\ available_move = V2(0, 0))
          => /\ grabbed_piece' = {}
             /\ grid' = grid
             /\ \A t \in Tiles :
                   pieces'[t].target_position = pieces[t].target_position
       /\ (Frame /\ LeftReleases <= 1)
          => \A t \in Tiles :
                get_grid_pos(grid', t) # get_grid_pos(grid, t)
                => Dist(get_grid_pos(grid, t), EmptyCell(grid)) = 1]_vars

\* After a legal grab, a tile without a move was pressed and released.
C8_Witness ==
    /\ frames = 3
    /\ grabbed_piece = {}
    /\ available_move = V2(0, 0)
    /\ grab_offset # V2(0, 0)

(***************************************************************************)
(* C9.  While a tile is grabbed with a legal move, at the end of every     *)
(* frame its coordinate along the move axis is the pointer minus the grab  *)
(* offset, clamped to the segment between the pixel coordinates of its     *)
(* origin cell and of the EMPTY cell, and its other coordinate is the      *)
(* origin cell's.                                                          *)
(***************************************************************************)
ClampedTo(pos, v, a, b) ==
    LET lo == MinInt(a, b)
        hi == MaxInt(a, b)
    IN /\ v < lo => pos = F32FromInt(lo)
       /\ v > hi => pos = F32FromInt(hi)
       /\ (lo <= v /\ v <= hi) => pos = F32FromInt(v)
       /\ ~F32Less(pos, F32FromInt(lo))
       /\ ~F32Less(F32FromInt(hi), pos)

C9_DragClamped ==
    \A g \in grabbed_piece :
        available_move # V2(0, 0) =>
            LET origin == get_px_from_grid(grid, g)
                empty  == CellPx(EmptyCell(grid))
                pos    == pieces[g].position
            IN IF available_move.x # 0
               THEN /\ ClampedTo(pos.x, mouse_position.x - grab_offset.x,
                                 origin.x, empty.x)
                    /\ pos.y = F32FromInt(origin.y)
               ELSE /\ ClampedTo(pos.y, mouse_position.y - grab_offset.y,
                                 origin.y, empty.y)
                    /\ pos.x = F32FromInt(origin.x)

\* The pointer is beyond the EMPTY cell and the tile is held at the segment's end.
C9_Witness ==
    \E g \in grabbed_piece :
        /\ available_move.x = 1
        /\ mouse_position.x - grab_offset.x > CellPx(EmptyCell(grid)).x
        /\ pieces[g].position.x = F32FromInt(CellPx(EmptyCell(grid)).x)

(***************************************************************************)
(* C10.  After every frame playing is false iff the grid is solved; the    *)
(* frame loop is entered only while playing; once playing is false it      *)
(* stays false and no further frame runs.                                  *)
(***************************************************************************)
C10_PlayingUntilSolved ==
    /\ [](frames >= 1 => (playing = FALSE <=> grid = SolvedGrid))
    /\ [](pc = "s_update" => playing)
    /\ [][playing = FALSE => (playing' = FALSE /\ grid' = grid /\ frames' = frames)]_vars

\* The player solved the puzzle and the loop has ended.
C10_Witness == pc = "exit" /\ mix_steps = 1 /\ frames = 2 /\ playing = FALSE

(***************************************************************************)
(* C11.  World::new with 0 shuffle steps does not panic and builds the     *)
(* solved grid, and the first frame, run with no event waiting, leaves the *)
(* grid solved and sets playing to false.                                  *)
(***************************************************************************)
C11_ZeroStepsWinsAtOnce ==
    /\ []((mix_steps = 0 /\ frames = 0) => (pc # "panic" /\ grid = SolvedGrid))
    /\ [][(mix_steps = 0 /\ Frame /\ frames = 0 /\ Queued = 0)
             => (playing' = FALSE /\ grid' = SolvedGrid /\ pc' = "s_render")]_vars

\* The first frame of a game built with 0 steps has run with no event waiting
\* and the loop has ended.
C11_Witness ==
    /\ mix_steps = 0
    /\ pc = "exit"
    /\ frames = 1
    /\ playing = FALSE
    /\ grabbed_piece = {}
    /\ grab_offset = V2(0, 0)

(***************************************************************************)
(* C12.  A frame whose only event is a left press on tile T leaves T       *)
(* grabbed.  If T borders EMPTY, available_move is the step toward EMPTY   *)
(* and grab_offset the press point; otherwise available_move is (0,0).     *)
(* While a tile is grabbed with available_move (0,0), its position and     *)
(* target position are its own cell's pixel position, and a frame without  *)
(* a left release leaves the grid unchanged and the tile where it is.      *)
(***************************************************************************)
\* The only waiting event is a left press, on window i.
OnlyLeftPressOn(i) ==
    /\ Queued = 1
    /\ Len(events[i]) = 1
    /\ events[i][1].kind = "MouseButtonPressed"
    /\ events[i][1].button = "Left"

\* Tile t rests on its cell.
AtOwnCell(t) ==
    /\ pieces[t].position = V2F(CellPx(get_grid_pos(grid, t)))
    /\ pieces[t].target_position = V2F(CellPx(get_grid_pos(grid, t)))

C12_PressGrabs ==
    /\ [][\A t \in Tiles :
            (Frame /\ OnlyLeftPressOn(t)) =>
               /\ grabbed_piece' = {t}
               /\ grid' = grid
               /\ IF Dist(get_grid_pos(grid, t), EmptyCell(grid)) = 1
                  THEN /\ Stepped(get_grid_pos(grid, t), available_move')
                             = EmptyCell(grid)
                       /\ grab_offset' = V2(events[t][1].x, events[t][1].y)
                  ELSE available_move' = V2(0, 0)]_vars
    /\ [](\A t \in grabbed_piece : available_move = V2(0, 0) => AtOwnCell(t))
    /\ [][\A t \in Tiles :
            (/\ Frame
             /\ LeftReleases = 0
             /\ grabbed_piece = {t}
             /\ available_move = V2(0, 0)
             /\ grabbed_piece' = {t})
            => /\ grid' = grid
               /\ available_move' = V2(0, 0)
               /\ pieces'[t].position = pieces[t].position
               /\ pieces'[t].target_position = pieces[t].target_position]_vars

\* A tile not bordering EMPTY is grabbed and a later frame has run.
C12_Witness ==
    \E t \in grabbed_piece :
        /\ frames >= 2
        /\ pc = "s_render"
        /\ available_move = V2(0, 0)
        /\ Dist(get_grid_pos(grid, t), EmptyCell(grid)) > 1
        /\ AtOwnCell(t)

(***************************************************************************)
(* C13.  After World::new the grid changes only in a frame that handles a  *)
(* left release: frames with presses, other events or none, drags,         *)
(* animation and s_render leave every cell unchanged.  When the release is *)
(* the frame's only event, a tile is grabbed with a non-zero move and the  *)
(* change is the swap of that tile with the EMPTY cell next to it.         *)
(***************************************************************************)
C13_GridChangesOnlyByCommit ==
    [][(pc # "mix" /\ grid' # grid) =>
          /\ Frame
          /\ LeftReleases >= 1
          /\ Queued = 1 =>
                \E g \in grabbed_piece :
                   /\ available_move # V2(0, 0)
                   /\ Stepped(get_grid_pos(grid, g), available_move) = EmptyCell(grid)
                   /\ grid' = SwapCells(grid, get_grid_pos(grid, g), EmptyCell(grid))
                   /\ grabbed_piece' = {}]_vars

\* After two shuffle steps EMPTY is two steps from the last cell; a committed
\* move has taken it three steps away.
C13_Witness ==
    /\ mix_steps = 2
    /\ pc = "s_render"
    /\ Dist(EmptyCell(grid), V2(2, 2)) = 3
    /\ grabbed_piece = {}

(***************************************************************************)
(* C14.  An event that is neither a left press nor a left release (a press *)
(* or release of another button, any other kind of event) is handled       *)
(* without changing anything, and a frame whose waiting events are all of  *)
(* that sort leaves grabbed_piece, available_move, grab_offset and the     *)
(* grid unchanged.                                                         *)
(***************************************************************************)
\* A left press or a left release.
LeftButtonEvent(event) ==
    /\ event.kind \in {"MouseButtonPressed", "MouseButtonReleased"}
    /\ event.button = "Left"

\* No left press and no left release is waiting.
NoLeftButtonEvent ==
    \A i \in Tiles : \A k \in 1..Len(events[i]) : ~LeftButtonEvent(events[i][k])

C14_OtherEventsIgnored ==
    /\ [](\A i \in Tiles : \A k \in 1..Len(events[i]) :
             ~LeftButtonEvent(events[i][k])
             => handle_event(World, i, events[i][k]) = World)
    /\ [][(Frame /\ NoLeftButtonEvent) =>
             /\ grabbed_piece' = grabbed_piece
             /\ available_move' = available_move
             /\ grab_offset' = grab_offset
             /\ grid' = grid]_vars

\* A right-button press waits on a window other than the grabbed tile's,
\* which borders EMPTY, while that tile is grabbed with a legal move.
C14_Witness ==
    \E i \in Tiles, g \in grabbed_piece :
        /\ i # g
        /\ pc = "s_update"
        /\ available_move # V2(0, 0)
        /\ get_available_move(grid, i) # V2(0, 0)
        /\ Len(events[i]) = 1
        /\ events[i][1].kind = "MouseButtonPressed"
        /\ events[i][1].button = "Right"

(***************************************************************************)
(* C15.  After every s_render each tile's target colour is (0,200,0) if    *)
(* the tile is on its solved cell (row * 3 + column = id) in the current   *)
(* grid and (200,0,0) if it is not.                                        *)
(***************************************************************************)
\* Tile i is on its solved cell in g.
OnSolvedCell(g, i) == g[i \div 3][i % 3] = i

\* The target colours are those of the grid.
TargetColoursOf(p, g) ==
    \A i \in Tiles :
        /\ OnSolvedCell(g, i) => p[i].target_color = <<0, 200, 0>>
        /\ ~OnSolvedCell(g, i) => p[i].target_color = <<200, 0, 0>>

C15_TargetColours ==
    /\ [][(pc = "s_render" /\ pc' # "s_render") => TargetColoursOf(pieces', grid')]_vars
    /\ []((pc \in {"s_update", "exit"} /\ frames >= 1) => TargetColoursOf(pieces, grid))

\* s_render has run on a grid where tile 0 is on its cell and another is not.
C15_Witness ==
    /\ pc = "s_update"
    /\ frames >= 1
    /\ pieces[0].target_color = GREEN
    /\ \E i \in Tiles : ~OnSolvedCell(grid, i) /\ pieces[i].target_color = RED

(***************************************************************************)
(* C16.  With a fixed target colour, repeated PuzzlePiece::update calls    *)
(* bring every colour channel to exactly the target's value within         *)
(* MaxUpdates frames, from 0 up to 200 as from 200 down to 0, and a        *)
(* colour that has reached its target stays there.                         *)
(***************************************************************************)
C16_ColourConverges ==
    /\ [](frames = MaxUpdates => \A i \in Tiles : pieces[i].color = pieces[i].target_color)
    /\ [][\A i \in Tiles :
            pieces[i].color = pieces[i].target_color
            => pieces'[i].color = pieces'[i].target_color]_vars

(***************************************************************************)
(* C17.  lazy_smoothing(current, target, 0.1) is target exactly when       *)
(* |current - target| < 0.1, so smooth(5.0, 5.0, 0.1) = 5.0, and otherwise *)
(* current + 0.15 * (target - current), which lies strictly beyond current *)
(* and never beyond target.  Iterated from 0.0 toward 100.0 it increases   *)
(* strictly at every call, and once at 100.0 it stays.  It is exactly      *)
(* 100.0 after 44 calls and not before; the statement with 40 calls in     *)
(* place of 44 is C17_ReachesWithin40.                                     *)
(***************************************************************************)
\* |current - target| < 0.1
WithinThreshold(current, target) ==
    F32Less(F32Abs(F32Sub(current, target)), F32_0_1)

\* What one call makes of current: the snap, or a strict step that stops short.
SmoothingStep(current, target, new) ==
    /\ new = target <=> WithinThreshold(current, target)
    /\ ~WithinThreshold(current, target) =>
          /\ new = F32Add(current, F32Mul(F32Sub(target, current), F32_0_15))
          /\ F32Less(current, target) => (F32Less(current, new) /\ F32Less(new, target))
          /\ F32Less(target, current) => (F32Less(new, current) /\ F32Less(target, new))

\* The contract of one call, on both coordinates of every piece.
SmoothingContract ==
    /\ [](lazy_smoothing(F32FromInt(5), F32FromInt(5), F32_0_1) = F32FromInt(5))
    /\ [][frames' = frames + 1 =>
            \A i \in Tiles :
               /\ SmoothingStep(pieces[i].position.x, pieces[i].target_position.x,
                                pieces'[i].position.x)
               /\ SmoothingStep(pieces[i].position.y, pieces[i].target_position.y,
                                pieces'[i].position.y)]_vars

\* position.y starts at 0.0; this is the run from 0.0 toward 100.0.
TowardHundred(i) == pieces[i].target_position.y = F32FromInt(100)

C17_ReachesWithin40 ==
    /\ SmoothingContract
    /\ [](\A i \in Tiles :
             (TowardHundred(i) /\ frames >= 40) => pieces[i].position.y = F32FromInt(100))

C17_ReachesAfter44 ==
    /\ SmoothingContract
    /\ [](\A i \in Tiles :
             TowardHundred(i) =>
                /\ frames >= 44 => pieces[i].position.y = F32FromInt(100)
                /\ frames < 44 => F32Less(pieces[i].position.y, F32FromInt(100)))

\* The 44th call has just brought the run from 0.0 to exactly 100.0.
C17_Witness ==
    /\ pc = "update"
    /\ frames = 44
    /\ TowardHundred(0)
    /\ pieces[0].position.y = F32FromInt(100)

(***************************************************************************)
(* C18.  Whenever no tile is grabbed after a frame, every tile's target    *)
(* position is the pixel position of the cell the tile occupies in the     *)
(* grid, whatever presses and releases came before, a press on a second    *)
(* tile while another is grabbed included.                                 *)
(***************************************************************************)
C18_TargetsOnCells ==
    (frames >= 1 /\ grabbed_piece = {}) =>
        \A t \in Tiles :
            pieces[t].target_position = V2F(CellPx(get_grid_pos(grid, t)))

(***************************************************************************)
(* C19.  A left release gives the same outcome on whichever window it      *)
(* arrives: handled on window i while tile g is grabbed, it leaves the     *)
(* World as it would if handled on window g, so the grabbed tile's own     *)
(* position decides between commit and revert.                             *)
(***************************************************************************)
\* A release of the left button.
LeftRelease == [x |-> 0, y |-> 0, button |-> "Left", kind |-> "MouseButtonReleased"]

C19_ReleaseDecidedByGrabbed ==
    \A g \in grabbed_piece, i \in Tiles :
        on_released(World, i, LeftRelease) = on_released(World, g, LeftRelease)

(***************************************************************************)
(* C20.  In every reachable state no grid lookup or index is out of range: *)
(* no bounds check has failed, none fails while the waiting events are     *)
(* handled, get_grid_pos finds every tile 0..7 and EMPTY in the grid, and  *)
(* while a tile is grabbed its cell plus available_move is a cell of the   *)
(* grid, the EMPTY cell when available_move is not (0,0).                  *)
(***************************************************************************)
\* In World w the grabbed tile's move, if any, leads to the EMPTY cell.
MoveNotStale(w) ==
    \A g \in w.grabbed_piece :
        /\ InGrid(Stepped(get_grid_pos(w.grid, g), w.available_move))
        /\ w.available_move # V2(0, 0) =>
              /\ Stepped(get_grid_pos(w.grid, g), w.available_move) = EmptyCell(w.grid)
              /\ w.available_move = get_available_move(w.grid, g)

\* Every tile and EMPTY is found in the grid of w.
AllFound(w) ==
    \A v \in Tiles \cup {EMPTY} :
        /\ get_grid_pos(w.grid, v) # V2(-1, -1)
        /\ InGrid(get_grid_pos(w.grid, v))
        /\ w.grid[get_grid_pos(w.grid, v).y][get_grid_pos(w.grid, v).x] = v

\* w is free of failed index checks and satisfies the two conditions above.
InRange(w) == ~w.panic /\ AllFound(w) /\ MoveNotStale(w)

C20_NoIndexOutOfRange ==
    /\ pc # "panic"
    /\ InRange(World)
    /\ pc = "s_update" => InRange(update_windows(World, 0, events))

\* After a committed move of the player a tile is grabbed again with a legal move.
C20_Witness ==
    /\ mix_steps = 2
    /\ frames = 3
    /\ pc = "s_render"
    /\ Dist(EmptyCell(grid), V2(2, 2)) # 2
    /\ grabbed_piece # {}
    /\ available_move # V2(0, 0)

(***************************************************************************)
(* C21.  At every step of the shuffle of World::new, for every number of   *)
(* steps and every earlier random choice, the list of candidate cells is   *)
(* not empty, the first step with last_swap = (0,0) included: gen_range    *)
(* never gets an empty range, every candidate is a cell next to EMPTY, and *)
(* the shuffle ends only after all mix_steps steps.                        *)
(***************************************************************************)
\* The candidates of the step the shuffle is about to take.
Candidates == adjacent_positions(EmptyCell(grid), last_swap)

C21_CandidatesNeverEmpty ==
    /\ pc # "panic"
    /\ (pc = "mix" /\ mixed < mix_steps) =>
          /\ Len(Candidates) >= 1
          /\ Range(Candidates) \subseteq OrthNeighbours(EmptyCell(grid))
    /\ mixed <= mix_steps
    /\ pc # "mix" => mixed = mix_steps

\* In a shuffle of main's 7 steps EMPTY is in a corner it has just entered:
\* one candidate is left.
C21_Witness ==
    /\ pc = "mix"
    /\ mix_steps = 7
    /\ mixed >= 1
    /\ mixed < mix_steps
    /\ Cardinality(OrthNeighbours(EmptyCell(grid))) = 2
    /\ Len(Candidates) = 1

(***************************************************************************)
(* C22.  After k steps of the shuffle EMPTY is an odd number of cells from *)
(* (2,2) when k is odd and an even number when k is even.  So for every    *)
(* odd mix_steps, the 7 of main among them, World::new never builds the    *)
(* solved grid, EMPTY is not at (2,2), and the frames that follow without  *)
(* any input leave playing true.  For even mix_steps the solved grid is    *)
(* not excluded: C22_Witness is such a start.                              *)
(***************************************************************************)
C22_OddShuffleNeverSolved ==
    /\ Dist(EmptyCell(grid), V2(2, 2)) % 2 = mixed % 2
    /\ (mix_steps % 2 = 1 /\ pc # "mix") =>
          /\ EmptyCell(grid) # V2(2, 2)
          /\ grid # SolvedGrid
          /\ ~win(grid)
          /\ playing
          /\ pc # "exit"

\* A shuffle of 12 steps has built the solved grid and the first frame has
\* ended the game.
C22_Witness ==
    /\ mix_steps = 12
    /\ mixed = 12
    /\ grid = SolvedGrid
    /\ frames = 1
    /\ pc = "exit"
    /\ playing = FALSE

=============================================================================
